---- MODULE Spec2Model ----
(***************************************************************************)
(* Model of the manifold-fillet geometry pipeline:                         *)
(*   extractEdges / selectEdges   (src/edgeSelection.ts)                   *)
(*   filletWithManifold           (src/unnamed/part_000, fillet.ts)        *)
(*                                                                         *)
(* Numbers.  The source computes in IEEE doubles.  The model computes in   *)
(* exact arithmetic over meshes whose vertices lie on the integer lattice: *)
(*   - a unit vector v/|v| is kept as the primitive integer vector of its  *)
(*     direction, dir, together with len2 = dir.dir (0 for the zero        *)
(*     vector, which the source leaves un-normalised);                     *)
(*   - the dot product of two unit vectors is num/sqrt(den2);              *)
(*   - angles are integers in units of 1/10000 degree (Deg(90) = 900000);  *)
(*   - a distance is kept as its square, the fraction num/den.             *)
(* The source's tolerances (1e-12, 1e-9) separate 0 from every other value *)
(* an integer-lattice mesh can produce.                                    *)
(***************************************************************************)
EXTENDS Integers, Sequences, FiniteSets, TLC

VARIABLES pc, mesh, options, allEdges, selectedEdges, idx, cuttingTools,
          result, kernelLog, warnings, prevSelection, prevSelected,
          toolAttempts, path

vars == <<pc, mesh, options, allEdges, selectedEdges, idx, cuttingTools,
          result, kernelLog, warnings, prevSelection, prevSelected,
          toolAttempts, path>>

(***************************************************************************)
(* Integer helpers                                                         *)
(***************************************************************************)
Abs(x) == IF x < 0 THEN -x ELSE x

Min(a, b) == IF a < b THEN a ELSE b

Max(a, b) == IF a > b THEN a ELSE b

RECURSIVE Gcd(_, _)
Gcd(a, b) == IF b = 0 THEN a ELSE Gcd(b, a % b)

Deg(d) == d * 10000

SeqToSet(s) == {s[i] : i \in 1..Len(s)}

(***************************************************************************)
(* Vectors                                                                 *)
(***************************************************************************)
Sub3(a, b) == <<a[1] - b[1], a[2] - b[2], a[3] - b[3]>>

Dot3(a, b) == a[1] * b[1] + a[2] * b[2] + a[3] * b[3]

Cross3(a, b) == <<a[2] * b[3] - a[3] * b[2],
                  a[3] * b[1] - a[1] * b[3],
                  a[1] * b[2] - a[2] * b[1]>>

\* n / sqrt(n.n) when sqrt(n.n) > 1e-12, else n itself (the zero vector)
Normalize(n) ==
    LET l2 == Dot3(n, n)
        g  == Gcd(Gcd(Abs(n[1]), Abs(n[2])), Abs(n[3]))
        d  == IF l2 > 0 THEN <<n[1] \div g, n[2] \div g, n[3] \div g>> ELSE n
    IN  [dir |-> d, len2 |-> Dot3(d, d)]

\* computeNormal: normalised cross product of the two edge vectors from v0
ComputeNormal(v0, v1, v2) == Normalize(Cross3(Sub3(v1, v0), Sub3(v2, v0)))

\* n0[0]*n1[0] + n0[1]*n1[1] + n0[2]*n1[2] of two (unit or zero) vectors,
\* as the fraction num / sqrt(den2)
UnitDot(n0, n1) ==
    IF n0.len2 = 0 \/ n1.len2 = 0
    THEN [num |-> 0, den2 |-> 1]
    ELSE [num |-> Dot3(n0.dir, n1.dir), den2 |-> n0.len2 * n1.len2]

\* Math.max(-1, Math.min(1, dot))
ClampDot(c) ==
    IF c.num * c.num > c.den2
    THEN [num |-> IF c.num < 0 THEN -1 ELSE 1, den2 |-> 1]
    ELSE c

\* Math.acos(c) * (180 / Math.PI) for c >= 0 with c^2 = p/q in lowest terms,
\* in 1/10000 degree
AcosDegNonNeg(p, q) ==
    CASE p = 0 -> 900000
      [] p = 1 /\ q = 1 -> 0
      [] p = 1 /\ q = 2 -> 450000
      [] p = 1 /\ q = 3 -> 547356
      [] p = 2 /\ q = 3 -> 352644
      [] p = 1 /\ q = 4 -> 600000
      [] p = 3 /\ q = 4 -> 300000
      [] p = 1 /\ q = 6 -> 659052
      [] p = 5 /\ q = 6 -> 240948
      [] p = 1 /\ q = 9 -> 705288
      [] p = 4 /\ q = 9 -> 481897

AcosDeg(c) ==
    LET sq == c.num * c.num
        g  == Gcd(sq, c.den2)
        a  == AcosDegNonNeg(sq \div g, c.den2 \div g)
    IN  IF c.num < 0 THEN Deg(180) - a ELSE a

\* lines 127-129 of extractEdges
DihedralAngle(n0, n1) == AcosDeg(ClampDot(UnitDot(n0, n1)))

(***************************************************************************)
(* Meshes: the kernel's mesh accessor gives triVerts (3 vertex indices per *)
(* triangle), vertProperties (numProp numbers per vertex, the position     *)
(* first) and numProp.                                                     *)
(***************************************************************************)
NumTris(m) == Len(m.triVerts) \div 3

GetVertex(m, i) ==
    LET offset == i * m.numProp
    IN  <<m.vertProperties[offset + 1], m.vertProperties[offset + 2],
          m.vertProperties[offset + 3]>>

\* triVerts[t*3], triVerts[t*3+1], triVerts[t*3+2] for the 0-based triangle t
TriIndices(m, t) ==
    <<m.triVerts[t * 3 + 1], m.triVerts[t * 3 + 2], m.triVerts[t * 3 + 3]>>

TriNormal(m, t) ==
    LET i == TriIndices(m, t)
    IN  ComputeNormal(GetVertex(m, i[1]), GetVertex(m, i[2]), GetVertex(m, i[3]))

\* faulty variant: the closing edge [i2,i0] replaced by a repeat of [i1,i2]
TriEdgesNoClosing(i) == << <<i[1], i[2]>>, <<i[2], i[3]>>, <<i[3], i[2]>> >>

\* the three edges [i0,i1], [i1,i2], [i2,i0] of a triangle
TriEdges(i) == << <<i[1], i[2]>>, <<i[2], i[3]>>, <<i[3], i[1]>> >>

\* faulty variant: the key keeps the order in which the triangle lists the indices
EdgeKeyDirected(a, b) == <<a, b>>

\* key "min_max" of the two vertex indices; key.split('_') and parseInt give
\* the two indices back, so the key is kept as the pair
EdgeKey(a, b) == IF a < b THEN <<a, b>> ELSE <<b, a>>

\* edgeToTris.get(key).push(entry), creating the list on the key's first
\* use; the map keeps its keys in insertion order
MapPush(map, key, entry) ==
    IF \E k \in 1..Len(map) : map[k].key = key
    THEN [k \in 1..Len(map) |->
            IF map[k].key = key
            THEN [key |-> key, tris |-> Append(map[k].tris, entry)]
            ELSE map[k]]
    ELSE Append(map, [key |-> key, tris |-> <<entry>>])

\* the loop over the triangles t, t+1, ... and over each triangle's 3 edges
RECURSIVE BuildEdgeMap(_, _, _)
BuildEdgeMap(m, t, map) ==
    IF t >= NumTris(m) THEN map
    ELSE LET e     == TriEdges(TriIndices(m, t))
             entry == [tri |-> t, normal |-> TriNormal(m, t)]
             m1    == MapPush(map, EdgeKey(e[1][1], e[1][2]), entry)
             m2    == MapPush(m1, EdgeKey(e[2][1], e[2][2]), entry)
             m3    == MapPush(m2, EdgeKey(e[3][1], e[3][2]), entry)
         IN  BuildEdgeMap(m, t + 1, m3)

EdgeToTris(m) == BuildEdgeMap(m, 0, <<>>)

\* if (tris.length !== 2) continue
IsManifoldEntry(tris) == Len(tris) = 2

MakeEdge(m, e) ==
    [v0 |-> e.key[1], v1 |-> e.key[2],
     p0 |-> GetVertex(m, e.key[1]), p1 |-> GetVertex(m, e.key[2]),
     n0 |-> e.tris[1].normal, n1 |-> e.tris[2].normal,
     dihedralAngle |-> DihedralAngle(e.tris[1].normal, e.tris[2].normal)]

RECURSIVE CollectEdges(_, _, _)
CollectEdges(m, map, k) ==
    IF k > Len(map) THEN <<>>
    ELSE IF IsManifoldEntry(map[k].tris)
         THEN <<MakeEdge(m, map[k])>> \o CollectEdges(m, map, k + 1)
         ELSE CollectEdges(m, map, k + 1)

ExtractEdges(m) == CollectEdges(m, EdgeToTris(m), 1)

(***************************************************************************)
(* selectEdges                                                             *)
(*   selection = [type |-> "point", point, maxDistance]  (maxDistance is   *)
(*               <<d>>, or NoMax when the property is absent)              *)
(*             | [type |-> "angle", minAngle]                              *)
(***************************************************************************)
NoMax == <<>>

\* Infinity, as a squared distance
InfiniteDist == [num |-> 1, den |-> 0]

\* d1 < d2 for two distances kept as squares
DistLess(d1, d2) == d1.num * d2.den < d2.num * d1.den

\* d <= maxDist, maxDist a number
DistLeq(d, maxDist) == maxDist >= 0 /\ d.num <= maxDist * maxDist * d.den

\* selection.maxDistance ?? Infinity, then dist <= maxDist
WithinMax(d, maxDistance) ==
    IF maxDistance = NoMax THEN TRUE
    ELSE DistLeq(d, maxDistance[1])

\* pointToSegmentDistance: distance from p to the segment a-b
PointToSegmentDistance(p, a, b) ==
    LET ab == Sub3(b, a)
        ap == Sub3(p, a)
        abLenSq == Dot3(ab, ab)
    IN  IF abLenSq = 0
        THEN [num |-> Dot3(ap, ap), den |-> 1]
        ELSE LET \* t = max(0, min(1, ap.ab / abLenSq)) = tn / abLenSq
                 tn == Max(0, Min(abLenSq, Dot3(ap, ab)))
                 \* (p - closest) * abLenSq
                 dv == <<abLenSq * ap[1] - tn * ab[1],
                         abLenSq * ap[2] - tn * ab[2],
                         abLenSq * ap[3] - tn * ab[3]>>
             IN  [num |-> Dot3(dv, dv), den |-> abLenSq * abLenSq]

\* faulty variant: the maximum distance is not looked at
CloserIgnoringMax(dist, closestDist, maxDistance) == DistLess(dist, closestDist)

\* dist < closestDist && dist <= maxDist
CloserWithinMax(dist, closestDist, maxDistance) ==
    DistLess(dist, closestDist) /\ WithinMax(dist, maxDistance)

\* the loop of selectByPoint from the k-th edge on
RECURSIVE ClosestFrom(_, _, _, _, _)
ClosestFrom(edges, sel, k, closestEdge, closestDist) ==
    IF k > Len(edges) THEN closestEdge
    ELSE LET dist == PointToSegmentDistance(sel.point, edges[k].p0, edges[k].p1)
         IN  IF CloserWithinMax(dist, closestDist, sel.maxDistance)
             THEN ClosestFrom(edges, sel, k + 1, <<edges[k]>>, dist)
             ELSE ClosestFrom(edges, sel, k + 1, closestEdge, closestDist)

\* closestEdge ? [closestEdge] : []   (closestEdge is null or one edge)
SelectByPoint(edges, sel) == ClosestFrom(edges, sel, 1, <<>>, InfiniteDist)

\* faulty variant: strict comparison with the threshold
SharpEnoughStrict(angle, threshold) == angle < threshold

\* faulty variant: comparison the other way round
SharpEnoughReversed(angle, threshold) == angle >= threshold

\* edge.dihedralAngle <= threshold
SharpEnough(angle, threshold) == angle <= threshold

AngleKeep(e, threshold) == SharpEnough(e.dihedralAngle, threshold)

SelectByAngle(edges, sel) ==
    LET threshold == Deg(180) - sel.minAngle
        Keep(e)   == AngleKeep(e, threshold)
    IN  SelectSeq(edges, Keep)

SelectEdges(edges, sel) ==
    IF sel.type = "point" THEN SelectByPoint(edges, sel)
    ELSE SelectByAngle(edges, sel)

(***************************************************************************)
(* Input meshes.  Every mesh uses the vertex buffer of the cube of side 2  *)
(* centred at the origin (the example's Manifold.cube(..., true), scaled): *)
(* vertex i has x = bit 0, y = bit 1, z = bit 2 of i, each mapped to -1/+1.*)
(***************************************************************************)
MaxVert == 3

MaxTris == 2

CubeCorner(i) == <<2 * (i % 2) - 1, 2 * ((i \div 2) % 2) - 1, 2 * (i \div 4) - 1>>

RECURSIVE FlatPositions(_, _)
FlatPositions(i, n) ==
    IF i >= n THEN <<>> ELSE CubeCorner(i) \o FlatPositions(i + 1, n)

\* the flat position buffer of the cube's 8 corners, 3 properties per vertex
CubeVertProperties == FlatPositions(0, 8)

MeshOf(tv) == [triVerts |-> tv, vertProperties |-> CubeVertProperties, numProp |-> 3]

\* 8 vertices, 12 triangles, two per face, outward (counter-clockwise) winding
CubeMesh == MeshOf(<<0,2,3, 0,3,1,  4,5,7, 4,7,6,  0,1,5, 0,5,4,
                     2,7,3, 2,6,7,  0,4,6, 0,6,2,  1,3,7, 1,7,5>>)

\* the same cube with the other diagonal on the bottom, top and x faces
CubeMeshAlt == MeshOf(<<0,2,1, 1,2,3,  4,5,6, 5,7,6,  0,1,5, 0,5,4,
                        2,7,3, 2,6,7,  0,4,2, 2,4,6,  1,3,5, 3,7,5>>)

CubeMeshes == {CubeMesh, CubeMeshAlt}

\* the regular tetrahedron on four corners of the cube
TetraMesh == MeshOf(<<3,6,5, 0,5,6, 0,6,3, 0,3,5>>)

EmptyMesh == MeshOf(<<>>)

SingleTriMesh == MeshOf(<<0,1,3>>)

\* two coplanar triangles of the bottom face
FlatSquareMesh == MeshOf(<<0,2,3, 0,3,1>>)

\* one bottom and one side triangle meeting at a right angle along edge 0-1
RightAngleMesh == MeshOf(<<0,3,1, 0,1,5>>)

\* the same triangle twice, with opposite windings
FoldedMesh == MeshOf(<<0,1,2, 0,2,1>>)

\* three triangles around edge 0-1
FanMesh == MeshOf(<<0,1,2, 0,3,1, 0,1,5>>)

\* triangles that repeat a vertex index
RepeatMesh == MeshOf(<<0,0,1>>)

RepeatPairMesh == MeshOf(<<0,0,1, 0,0,2>>)

NamedMeshes == {CubeMesh, CubeMeshAlt, TetraMesh, EmptyMesh, SingleTriMesh, FlatSquareMesh,
                RightAngleMesh, FoldedMesh, FanMesh, RepeatMesh, RepeatPairMesh}

VertexIds == 0..(MaxVert - 1)

\* the lists of exactly n triangles over the first MaxVert vertices
TriLists(n) == [1..(3 * n) -> VertexIds]

\* solid handles: the solid given to fillet, and no solid at all
InputSolid == 0

NoResult == -1

NoSolid == [triVerts |-> <<>>, vertProperties |-> <<>>, numProp |-> 0]

NoOptions == [radius |-> 0, selection |-> [type |-> "none"], segments |-> 0]

NoSelection == [type |-> "none"]

(***************************************************************************)
(* SpecExtract: extractEdges applied to a mesh                             *)
(***************************************************************************)
InitExtract ==
    /\ \/ mesh \in NamedMeshes
       \/ \E n \in 0..MaxTris : \E tv \in TriLists(n) : mesh = MeshOf(tv)
    /\ pc = "extract"
    /\ options = NoOptions
    /\ allEdges = <<>>
    /\ selectedEdges = <<>>
    /\ idx = 0
    /\ cuttingTools = <<>>
    /\ result = NoResult
    /\ kernelLog = <<>>
    /\ warnings = <<>>
    /\ prevSelection = NoSelection
    /\ prevSelected = <<>>
    /\ toolAttempts = <<>>
    /\ path = <<>>

DoExtractEdges ==
    /\ pc = "extract"
    /\ allEdges' = ExtractEdges(mesh)
    /\ pc' = "extracted"
    /\ UNCHANGED <<mesh, options, selectedEdges, idx, cuttingTools, result,
                   kernelLog, warnings, prevSelection, prevSelected,
                   toolAttempts, path>>

NextExtract == DoExtractEdges

SpecExtract == InitExtract /\ [][NextExtract]_vars

(***************************************************************************)
(* Claims about extractEdges (SpecExtract)                                 *)
(***************************************************************************)
\* the vertex indices the triangles of a mesh use
UsedVertexIds(m) == SeqToSet(m.triVerts)

\* the edge slots <<t, k>> (triangle t, k-th edge) whose two indices are a, b
Incidences(m, a, b) ==
    {tk \in (0..(NumTris(m) - 1)) \X (1..3) :
        LET i == TriIndices(m, tk[1])
            x == i[tk[2]]
            y == i[(tk[2] % 3) + 1]
        IN  {x, y} = {a, b}}

\* the triangles that have the unordered pair a, b among their three edges
TrianglesSharing(m, a, b) == {tk[1] : tk \in Incidences(m, a, b)}

EdgesOfPair(edges, a, b) ==
    {i \in 1..Len(edges) : {edges[i].v0, edges[i].v1} = {a, b}}

\* C3: after extractEdges, an unordered vertex pair is in the returned edge
\* set, exactly once, if and only if exactly two triangles share it; this is
\* stated for every triangle list, triangles that repeat a vertex index
\* included (an edge can only join indices that the triangles use).
C3_EdgeIffTwoTriangles ==
    pc = "extracted" =>
        \A a \in UsedVertexIds(mesh), b \in UsedVertexIds(mesh) :
            a < b =>
                Cardinality(EdgesOfPair(allEdges, a, b)) =
                    (IF Cardinality(TrianglesSharing(mesh, a, b)) = 2 THEN 1 ELSE 0)

\* every edge of the mesh is shared by exactly two triangles: each pair of
\* indices that some triangle uses as an edge fills exactly two edge slots,
\* in two different triangles
EveryEdgeSharedByTwo(m) ==
    \A a \in UsedVertexIds(m), b \in UsedVertexIds(m) :
        a <= b =>
            \/ Incidences(m, a, b) = {}
            \/ /\ Cardinality(Incidences(m, a, b)) = 2
               /\ Cardinality(TrianglesSharing(m, a, b)) = 2

\* C4: for a mesh in which every edge is shared by exactly two triangles,
\* extractEdges returns 3 * triangleCount / 2 edges.
C4_EdgeCountClosure ==
    (pc = "extracted" /\ EveryEdgeSharedByTwo(mesh)) =>
        2 * Len(allEdges) = 3 * NumTris(mesh)

C4_Witness ==
    /\ pc = "extracted"
    /\ EveryEdgeSharedByTwo(mesh)
    /\ NumTris(mesh) = 4
    /\ Len(allEdges) = 6

\* an edge of the cube itself: its end points differ in exactly one coordinate
IsCubeEdge(e) == Cardinality({c \in 1..3 : e.p0[c] # e.p1[c]}) = 1

\* C5 as stated: extractEdges on the triangulated cube (8 vertices, 12
\* triangles) yields exactly 12 edges, each with dihedral angle 90.
C5_CubeTwelveEdges ==
    (pc = "extracted" /\ mesh \in CubeMeshes) =>
        /\ Len(allEdges) = 12
        /\ \A i \in 1..Len(allEdges) : allEdges[i].dihedralAngle = Deg(90)

\* C5 amended: extractEdges on the triangulated cube yields exactly 18 edges
\* (3 * 12 / 2): the 12 edges of the cube, each with dihedral angle 90, and
\* the 6 face diagonals, each between two triangles with the same normal.
C5_CubeEighteenEdges ==
    (pc = "extracted" /\ mesh \in CubeMeshes) =>
        /\ Len(allEdges) = 18
        /\ Cardinality({i \in 1..Len(allEdges) : IsCubeEdge(allEdges[i])}) = 12
        /\ \A i \in 1..Len(allEdges) :
              IF IsCubeEdge(allEdges[i])
              THEN allEdges[i].dihedralAngle = Deg(90)
              ELSE allEdges[i].n0 = allEdges[i].n1

C5_Witness ==
    /\ pc = "extracted"
    /\ mesh = CubeMesh
    /\ \E i \in 1..Len(allEdges) : allEdges[i].dihedralAngle = Deg(90)
    /\ \E i \in 1..Len(allEdges) : ~IsCubeEdge(allEdges[i])

\* C6: the stored dihedral angle is 180 for an edge whose two triangles have
\* equal unit normals (coplanar), 90 for perpendicular normals, 0 for
\* opposite normals (folded back).
C6_AngleConvention ==
    pc = "extracted" =>
        \A i \in 1..Len(allEdges) :
            LET e == allEdges[i]
                unit == e.n0.len2 > 0 /\ e.n1.len2 > 0
            IN  /\ (unit /\ e.n0 = e.n1) => e.dihedralAngle = Deg(180)
                /\ (unit /\ Dot3(e.n0.dir, e.n1.dir) = 0) => e.dihedralAngle = Deg(90)
                /\ (unit /\ e.n0.dir = Sub3(<<0, 0, 0>>, e.n1.dir)) => e.dihedralAngle = 0

(***************************************************************************)
(* SpecSelect: selectEdges applied to an edge list, then applied again to  *)
(* the same list with another selection.  The lists are drawn from edges   *)
(* that extractEdges returns for the named meshes.                         *)
(***************************************************************************)
MaxEdges == 2

EdgePool ==
    {ExtractEdges(RightAngleMesh)[1],    \* cube edge 0-1, 90
     ExtractEdges(FlatSquareMesh)[1],    \* face diagonal 0-3, 0
     ExtractEdges(FoldedMesh)[1],        \* 180
     ExtractEdges(TetraMesh)[1],         \* 109.4712
     ExtractEdges(RepeatPairMesh)[1],    \* zero length: p0 = p1
     ExtractEdges(CubeMesh)[18]}

\* the lists of exactly n edges of the pool
RECURSIVE EdgeListsOfLen(_)
EdgeListsOfLen(n) ==
    IF n = 0 THEN {<<>>}
    ELSE {Append(l, e) : l \in EdgeListsOfLen(n - 1), e \in EdgePool}

EdgeLists(n) == UNION {EdgeListsOfLen(k) : k \in 0..n}

MinAngles == {Deg(-20), 0, Deg(80), Deg(90), Deg(180), Deg(200)}

AngleSelections == {[type |-> "angle", minAngle |-> a] : a \in MinAngles}

QueryPoints == {<<-1, -1, -1>>, <<0, -1, -1>>, <<0, 0, 0>>, <<3, -1, -1>>}

MaxDistances == {NoMax, <<-1>>, <<0>>, <<1>>}

PointSelections ==
    {[type |-> "point", point |-> p, maxDistance |-> d] :
        p \in QueryPoints, d \in MaxDistances}

Selections == AngleSelections \cup PointSelections

InitSelect ==
    /\ allEdges \in EdgeLists(MaxEdges)
    /\ options \in {[radius |-> 0, selection |-> sel, segments |-> 0] : sel \in Selections}
    /\ pc = "select"
    /\ mesh = NoSolid
    /\ selectedEdges = <<>>
    /\ idx = 0
    /\ cuttingTools = <<>>
    /\ result = NoResult
    /\ kernelLog = <<>>
    /\ warnings = <<>>
    /\ prevSelection = NoSelection
    /\ prevSelected = <<>>
    /\ toolAttempts = <<>>
    /\ path = <<>>

DoSelectEdges ==
    /\ pc = "select"
    /\ selectedEdges' = SelectEdges(allEdges, options.selection)
    /\ pc' = "selected"
    /\ UNCHANGED <<mesh, options, allEdges, idx, cuttingTools, result,
                   kernelLog, warnings, prevSelection, prevSelected,
                   toolAttempts, path>>

\* a second call on the same edge list; the first call is remembered
DoSelectAgain ==
    /\ pc = "selected"
    /\ \E sel \in Selections :
          /\ options' = [options EXCEPT !.selection = sel]
          /\ selectedEdges' = SelectEdges(allEdges, sel)
    /\ prevSelection' = options.selection
    /\ prevSelected' = selectedEdges
    /\ pc' = "reselected"
    /\ UNCHANGED <<mesh, allEdges, idx, cuttingTools, result, kernelLog, warnings,
                   toolAttempts, path>>

NextSelect == DoSelectEdges \/ DoSelectAgain

SpecSelect == InitSelect /\ [][NextSelect]_vars

(***************************************************************************)
(* Claims about selectEdges (SpecSelect)                                   *)
(***************************************************************************)
\* selectEdges has returned (from the first or from the second call)
SelectReturned == pc \in {"selected", "reselected"}

\* C7: in angle mode selectEdges returns exactly the edges with
\* dihedralAngle <= 180 - minAngle (equality included), for every minAngle,
\* also outside [0, 180]; the result holds only input edges, and the input
\* list is left as it was.
C7_AngleSelectsExactly ==
    /\ [](  (SelectReturned /\ options.selection.type = "angle") =>
              LET threshold == Deg(180) - options.selection.minAngle
                  keep == {i \in 1..Len(allEdges) : allEdges[i].dihedralAngle <= threshold}
              IN  /\ SeqToSet(selectedEdges) = {allEdges[i] : i \in keep}
                  /\ Len(selectedEdges) = Cardinality(keep)
                  /\ SeqToSet(selectedEdges) \subseteq SeqToSet(allEdges) )
    /\ [][allEdges' = allEdges]_vars

\* an edge exactly at the threshold is selected, with a minAngle outside
\* [0, 180] also seen on this list
C7_Witness ==
    /\ SelectReturned
    /\ options.selection = [type |-> "angle", minAngle |-> Deg(90)]
    /\ \E i \in 1..Len(selectedEdges) : selectedEdges[i].dihedralAngle = Deg(90)
    /\ Len(selectedEdges) < Len(allEdges)
    /\ prevSelection = [type |-> "angle", minAngle |-> Deg(200)]

BothAngle == prevSelection.type = "angle" /\ options.selection.type = "angle"

\* C8 as stated: for minAngle1 < minAngle2 the set selected with minAngle1
\* is a subset of the set selected with minAngle2.
C8_MonotoneAsStated ==
    (SelectReturned /\ BothAngle) =>
        /\ prevSelection.minAngle < options.selection.minAngle =>
              SeqToSet(prevSelected) \subseteq SeqToSet(selectedEdges)
        /\ options.selection.minAngle < prevSelection.minAngle =>
              SeqToSet(selectedEdges) \subseteq SeqToSet(prevSelected)

\* C8 amended: for minAngle1 < minAngle2 the set selected with minAngle2 is
\* a subset of the set selected with minAngle1 (a larger minAngle selects no
\* more edges).
C8_AntiMonotone ==
    (SelectReturned /\ BothAngle) =>
        /\ prevSelection.minAngle < options.selection.minAngle =>
              SeqToSet(selectedEdges) \subseteq SeqToSet(prevSelected)
        /\ options.selection.minAngle < prevSelection.minAngle =>
              SeqToSet(prevSelected) \subseteq SeqToSet(selectedEdges)

C8_Witness ==
    /\ SelectReturned
    /\ BothAngle
    /\ prevSelection.minAngle < options.selection.minAngle
    /\ SeqToSet(selectedEdges) # SeqToSet(prevSelected)
    /\ selectedEdges # <<>>

\* the distance of edge e from the query point of selection sel
EdgeDist(e, sel) == PointToSegmentDistance(sel.point, e.p0, e.p1)

\* some edge of the list is within the maximum distance
SomeEdgeInRange(edges, sel) ==
    \E i \in 1..Len(edges) : WithinMax(EdgeDist(edges[i], sel), sel.maxDistance)

\* C9: in point mode selectEdges returns at most one edge: none when the
\* list is empty or every edge is farther than maxDistance (unbounded when
\* absent); otherwise exactly one edge of the list, within maxDistance and
\* no farther from the query point than any edge of the list.
C9_PointSelectsClosest ==
    (SelectReturned /\ options.selection.type = "point") =>
        LET sel == options.selection
        IN  IF ~SomeEdgeInRange(allEdges, sel)
            THEN selectedEdges = <<>>
            ELSE /\ Len(selectedEdges) = 1
                 /\ selectedEdges[1] \in SeqToSet(allEdges)
                 /\ WithinMax(EdgeDist(selectedEdges[1], sel), sel.maxDistance)
                 /\ \A i \in 1..Len(allEdges) :
                       ~DistLess(EdgeDist(allEdges[i], sel), EdgeDist(selectedEdges[1], sel))

\* a closest edge is returned although the list also holds an edge that is
\* out of range
C9_Witness ==
    /\ SelectReturned
    /\ options.selection.type = "point"
    /\ options.selection.maxDistance = <<1>>
    /\ Len(selectedEdges) = 1
    /\ \E i \in 1..Len(allEdges) :
          ~WithinMax(EdgeDist(allEdges[i], options.selection), <<1>>)

(***************************************************************************)
(* Points of the tool geometry.  A coordinate is a sum of rationals times  *)
(* 1/sqrt(L), L the squared length of the primitive direction of a unit    *)
(* vector (L = 1, 2, 3 for the directions between corners of the cube and  *)
(* for the normals of triangles on them, L = 6 for some of their cross     *)
(* products; the numbers 1, 1/sqrt(2), 1/sqrt(3), 1/sqrt(6) are            *)
(* independent over the rationals, so two points are equal exactly when    *)
(* their representations are).  A point is a function from L to an integer *)
(* vector V[L], standing for  (1/Scale) * (sum over L of V[L]/sqrt(L)).    *)
(***************************************************************************)
\* lengths are kept in units of 1/Scale, so that 0.001, 0.1 * radius and
\* 1.1 * radius are integers
Scale == 1000

\* the squared lengths L that occur
Radicands == {1, 2, 3, 6}

Scale3(c, v) == <<c * v[1], c * v[2], c * v[3]>>

Add3(a, b) == <<a[1] + b[1], a[2] + b[2], a[3] + b[3]>>

\* the point [x, y, z] with number coordinates
PointVec(p) == [L \in Radicands |-> IF L = 1 THEN Scale3(Scale, p) ELSE <<0, 0, 0>>]

\* c * u for a unit (or zero) vector u, c in units of 1/Scale
UnitTimes(u, c) ==
    CASE u.len2 = 0 -> [L \in Radicands |-> <<0, 0, 0>>]
      [] u.len2 \in Radicands ->
            [L \in Radicands |-> IF L = u.len2 THEN Scale3(c, u.dir) ELSE <<0, 0, 0>>]

VAdd(a, b) == [L \in Radicands |-> Add3(a[L], b[L])]

VSub(a, b) == [L \in Radicands |-> Sub3(a[L], b[L])]

\* the terms of a mixed product vanish: the parts of v and w that belong
\* to different L are perpendicular, so that v.w is a rational number
RationalDot(v, w) ==
    \A L \in Radicands, M \in Radicands : L # M => Dot3(v[L], w[M]) = 0

\* v.w * Scale^2 as the fraction num/den, when RationalDot(v, w):
\* v[1].w[1]/1 + v[2].w[2]/2 + v[3].w[3]/3 + v[6].w[6]/6
VDot(v, w) ==
    [num |-> 6 * Dot3(v[1], w[1]) + 3 * Dot3(v[2], w[2]) + 2 * Dot3(v[3], w[3])
               + Dot3(v[6], w[6]),
     den |-> 6]

(***************************************************************************)
(* createFilletCuttingTool: the tube's sphere centres and the wedge points *)
(***************************************************************************)
\* [ex / edgeLen, ey / edgeLen, ez / edgeLen], computed when edgeLen >= 1e-9
EdgeDir(e) == Normalize(Sub3(e.p1, e.p0))

\* ext = radius * 0.1
Ext(radius) == (radius * Scale) \div 10

\* wedgeDepth = radius * 1.1
WedgeDepth(radius) == (radius * Scale * 11) \div 10

\* faulty variant: the centre is offset along n0 only, twice
TubeCentreOneNormal(p, e, radius, along) ==
    VAdd(VSub(VSub(PointVec(p), UnitTimes(e.n0, radius * Scale)),
              UnitTimes(e.n0, radius * Scale)),
         UnitTimes(EdgeDir(e), along))

\* p - n0 * radius - n1 * radius + edgeDir * along
TubeCentre(p, e, radius, along) ==
    VAdd(VSub(VSub(PointVec(p), UnitTimes(e.n0, radius * Scale)),
              UnitTimes(e.n1, radius * Scale)),
         UnitTimes(EdgeDir(e), along))

TubeStart(e, radius) == TubeCentre(e.p0, e, radius, 0 - Ext(radius))

TubeEnd(e, radius) == TubeCentre(e.p1, e, radius, Ext(radius))

\* the six wedgePoints, in the order they are pushed
WedgePoints(e, radius) ==
    LET s  == VSub(PointVec(e.p0), UnitTimes(EdgeDir(e), Ext(radius)))
        en == VAdd(PointVec(e.p1), UnitTimes(EdgeDir(e), Ext(radius)))
        wedgeDepth == WedgeDepth(radius)
    IN  << s,
           VSub(s, UnitTimes(e.n0, wedgeDepth)),
           VSub(s, UnitTimes(e.n1, wedgeDepth)),
           en,
           VSub(en, UnitTimes(e.n0, wedgeDepth)),
           VSub(en, UnitTimes(e.n1, wedgeDepth)) >>

(***************************************************************************)
(* buildWedge (src/unnamed/part_001) with edgeDirection                    *)
(***************************************************************************)
\* 0.001, the default of inflate
DefaultInflate == 1

\* edgeDirection: [1, 0, 0] when the length is below 1e-12
EdgeDirection(e) ==
    LET d == Sub3(e.p1, e.p0)
    IN  IF Dot3(d, d) = 0 THEN [dir |-> <<1, 0, 0>>, len2 |-> 1] ELSE Normalize(d)

\* crossAndNormalize: [0, 0, 1] when the cross product is shorter than 1e-12
CrossAndNormalize(a, b) ==
    LET c == Cross3(a.dir, b.dir)
    IN  IF Dot3(c, c) = 0 THEN [dir |-> <<0, 0, 1>>, len2 |-> 1] ELSE Normalize(c)

NegUnit(u) == [dir |-> Sub3(<<0, 0, 0>>, u.dir), len2 |-> u.len2]

\* if (dot(offset, n) < 0) offset = -offset
OrientOffset(offset, n) ==
    IF UnitDot(offset, n).num < 0 THEN NegUnit(offset) ELSE offset

\* the six points [s0, sA, sB, e0, eA, eB]; distance and inflate in units
\* of 1/Scale
BuildWedgePoints(e, distance, inflate) ==
    LET dir     == EdgeDirection(e)
        offsetA == OrientOffset(CrossAndNormalize(e.n0, dir), e.n0)
        offsetB == OrientOffset(CrossAndNormalize(e.n1, dir), e.n1)
        d       == distance + inflate
        ext     == inflate
        s0      == VSub(PointVec(e.p0), UnitTimes(dir, ext))
        e0      == VAdd(PointVec(e.p1), UnitTimes(dir, ext))
    IN  << s0, VAdd(s0, UnitTimes(offsetA, d)), VAdd(s0, UnitTimes(offsetB, d)),
           e0, VAdd(e0, UnitTimes(offsetA, d)), VAdd(e0, UnitTimes(offsetB, d)) >>

(***************************************************************************)
(* The CSG kernel.  A solid is a handle: InputSolid is the solid given to  *)
(* fillet, and the solid a kernel call returns has that call's position in *)
(* kernelLog as its handle.  A call is [op, args, edge, part]: args are    *)
(* the numbers and handles passed, edge is the position in selectedEdges   *)
(* of the edge a tool is being built for (0 outside tool construction) and *)
(* part names the piece of the tool.                                       *)
(***************************************************************************)
Call(op, args, edge, part) == [op |-> op, args |-> args, edge |-> edge, part |-> part]

DefaultSegments == 16

\* const { radius, selection, segments = 16 } = options
SegmentsOf(opts) == IF opts.segments = <<>> THEN DefaultSegments ELSE opts.segments[1]

\* faulty variant: zero passes the check
RadiusNegative(radius) == radius < 0

\* if (radius <= 0) throw
RadiusInvalid(radius) == radius <= 0

\* faulty variant: an empty edge list or selection raises an error
EarlyThrow == [pc |-> "error", result |-> NoResult]

\* console.warn(...); return mf
EarlyReturn == [pc |-> "done", result |-> InputSolid]

\* faulty variant: only the upper limit of the angle window is checked
BelowUpperLimit(angle) == angle < Deg(175)

\* edge.dihedralAngle > 5 && edge.dihedralAngle < 175
InAngleWindow(angle) == angle > Deg(5) /\ angle < Deg(175)

\* faulty variant: the volume of the tool is not looked at
ToolUsableAnyVolume(tool, volume) == tool # <<>>

\* tool && tool.volume() > 1e-9
ToolUsable(tool, volume) == tool # <<>> /\ volume = "above"

\* faulty variant: the loop over selectedEdges ends after its first pass
LoopDoneAfterFirst(i, n) == TRUE

\* for (const edge of selectedEdges): the pass for the i-th of n edges was
\* the last one
LoopDone(i, n) == i >= n

\* faulty variant: every tool is subtracted from the solid given to fillet
SubtractCallFromInput(res, tool) == Call("subtract", <<InputSolid, tool>>, 0, "solid")

\* result.subtract(tool)
SubtractCall(res, tool) == Call("subtract", <<res, tool>>, 0, "solid")

\* edgeLen < 1e-9 in createFilletCuttingTool
EdgeLengthZero(e) == Dot3(Sub3(e.p1, e.p0), Sub3(e.p1, e.p0)) = 0

\* the kernel calls of createFilletCuttingTool for the k-th selected edge,
\* made when the log holds n calls: two translated spheres, their hull (the
\* tube), the hull of the six wedge points, and wedge.subtract(tube)
ToolCalls(n, k, e, radius, segments) ==
    << Call("sphere", <<radius, segments>>, k, "tubeStart"),
       Call("translate", <<n + 1, TubeStart(e, radius)>>, k, "tubeStart"),
       Call("sphere", <<radius, segments>>, k, "tubeEnd"),
       Call("translate", <<n + 3, TubeEnd(e, radius)>>, k, "tubeEnd"),
       Call("hull", <<n + 2, n + 4>>, k, "tube"),
       Call("hull", WedgePoints(e, radius), k, "wedge"),
       Call("subtract", <<n + 6, n + 5>>, k, "tool") >>

\* createFilletCuttingTool: [calls, tool], tool = <<>> for null
CreateFilletCuttingTool(n, k, e, radius, segments) ==
    IF EdgeLengthZero(e)
    THEN [calls |-> <<>>, tool |-> <<>>]
    ELSE [calls |-> ToolCalls(n, k, e, radius, segments), tool |-> <<n + 7>>]

(***************************************************************************)
(* Spec: one call of filletWithManifold(Manifold, mf, options)             *)
(***************************************************************************)
MaxRadius == 2

Radii == (-1)..MaxRadius

\* flat, right-angle and folded edges in one mesh
MixedMesh == MeshOf(<<0,2,3, 0,3,1, 0,1,5, 4,6,7, 4,7,6>>)

FilletMeshes == {EmptyMesh, SingleTriMesh, FlatSquareMesh, RightAngleMesh,
                 FoldedMesh, RepeatPairMesh, MixedMesh, TetraMesh}

SegmentChoices == {<<>>, <<50>>}

FilletOptions ==
    {[radius |-> r, selection |-> sel, segments |-> sg] :
        r \in Radii, sel \in Selections, sg \in SegmentChoices}

\* the two calls of the example script, on the cube: the edge nearest to the
\* middle of a cube edge, and all edges sharper than 80 degrees
ExampleSelections ==
    {[type |-> "point", point |-> <<1, 1, 0>>, maxDistance |-> <<1>>],
     [type |-> "angle", minAngle |-> Deg(80)]}

\* on the cube: an invalid radius and the largest one
ExampleRadii == {0, MaxRadius}

ExampleOptions ==
    {[radius |-> r, selection |-> sel, segments |-> <<50>>] :
        r \in ExampleRadii, sel \in ExampleSelections}

FilletCalls ==
    (FilletMeshes \X FilletOptions) \cup ({CubeMesh} \X ExampleOptions)

Init ==
    /\ \E call \in FilletCalls : mesh = call[1] /\ options = call[2]
    /\ pc = "start"
    /\ allEdges = <<>>
    /\ selectedEdges = <<>>
    /\ idx = 0
    /\ cuttingTools = <<>>
    /\ result = NoResult
    /\ kernelLog = <<>>
    /\ warnings = <<>>
    /\ prevSelection = NoSelection
    /\ prevSelected = <<>>
    /\ toolAttempts = <<>>
    /\ path = <<>>

\* lines 41-45: the radius check
FilletCheckRadius ==
    /\ pc = "start"
    /\ pc' = IF RadiusInvalid(options.radius) THEN "error" ELSE "extract"
    /\ UNCHANGED <<mesh, options, allEdges, selectedEdges, idx, cuttingTools,
                   result, kernelLog, warnings, prevSelection, prevSelected,
                   toolAttempts, path>>

\* lines 47-53: extractEdges(mf), which reads the mesh
FilletExtract ==
    /\ pc = "extract"
    /\ kernelLog' = Append(kernelLog, Call("getMesh", <<InputSolid>>, 0, ""))
    /\ allEdges' = ExtractEdges(mesh)
    /\ IF Len(allEdges') = 0
       THEN /\ warnings' = Append(warnings, "fillet: No edges found in mesh")
            /\ pc' = EarlyReturn.pc
            /\ result' = EarlyReturn.result
       ELSE /\ pc' = "select"
            /\ UNCHANGED <<warnings, result>>
    /\ UNCHANGED <<mesh, options, selectedEdges, idx, cuttingTools,
                   prevSelection, prevSelected,
                   toolAttempts, path>>

\* lines 55-69: selectEdges, let result = mf, cuttingTools = []
FilletSelect ==
    /\ pc = "select"
    /\ selectedEdges' = SelectEdges(allEdges, options.selection)
    /\ IF Len(selectedEdges') = 0
       THEN /\ warnings' = Append(warnings, "fillet: No edges matched selection criteria")
            /\ pc' = EarlyReturn.pc
            /\ result' = EarlyReturn.result
            /\ UNCHANGED idx
       ELSE /\ pc' = "tools"
            /\ result' = InputSolid
            /\ idx' = 1
            /\ UNCHANGED warnings
    /\ UNCHANGED <<mesh, options, allEdges, cuttingTools, kernelLog,
                   prevSelection, prevSelected,
                   toolAttempts, path>>

\* lines 71-80: one pass of the loop over selectedEdges.  The volume the
\* kernel computes for a tool is above 1e-9 or not; toolAttempts keeps, for
\* each call of createFilletCuttingTool, the edge, the tool returned (<<>>
\* for null) and the outcome of the volume test ("absent" when there was no
\* tool to ask).  After the last edge, lines 83 and 91: go on to subtract,
\* or return when no tool was collected.
FilletToolStep ==
    /\ pc = "tools"
    /\ idx <= Len(selectedEdges)
    /\ LET e == selectedEdges[idx]
           made == CreateFilletCuttingTool(Len(kernelLog), idx, e, options.radius,
                                           SegmentsOf(options))
       IN  IF InAngleWindow(e.dihedralAngle)
           THEN \E volume \in (IF made.tool = <<>> THEN {"absent"} ELSE {"below", "above"}) :
                   /\ kernelLog' = IF made.tool = <<>>
                                   THEN kernelLog
                                   ELSE (kernelLog \o made.calls) \o
                                          <<Call("volume", made.tool, idx, "tool")>>
                   /\ toolAttempts' = Append(toolAttempts,
                                        [edge |-> idx, tool |-> made.tool, volume |-> volume])
                   /\ cuttingTools' = IF ToolUsable(made.tool, volume)
                                      THEN Append(cuttingTools, made.tool[1])
                                      ELSE cuttingTools
           ELSE UNCHANGED <<kernelLog, cuttingTools, toolAttempts>>
    /\ IF LoopDone(idx, Len(selectedEdges))
       THEN idx' = 1 /\ pc' = IF Len(cuttingTools') > 0 THEN "subtract" ELSE "done"
       ELSE idx' = idx + 1 /\ pc' = "tools"
    /\ UNCHANGED <<mesh, options, allEdges, selectedEdges, result, warnings,
                   prevSelection, prevSelected, path>>

\* lines 86-91: result = result.subtract(tool) for the next tool; return
\* after the last one
FilletSubtractStep ==
    /\ pc = "subtract"
    /\ idx <= Len(cuttingTools)
    /\ kernelLog' = Append(kernelLog, SubtractCall(result, cuttingTools[idx]))
    /\ result' = Len(kernelLog) + 1
    /\ IF idx < Len(cuttingTools)
       THEN idx' = idx + 1 /\ pc' = "subtract"
       ELSE idx' = idx /\ pc' = "done"
    /\ UNCHANGED <<mesh, options, allEdges, selectedEdges, cuttingTools, warnings,
                   prevSelection, prevSelected,
                   toolAttempts, path>>

Next ==
    \/ FilletCheckRadius
    \/ FilletExtract
    \/ FilletSelect
    \/ FilletToolStep
    \/ FilletSubtractStep

Spec == Init /\ [][Next]_vars

(***************************************************************************)
(* Claims about filletWithManifold (Spec)                                  *)
(***************************************************************************)
\* C1: fillet called with radius <= 0 fails with the invalid-parameter
\* error and does nothing else: the mesh is not read, no edge is extracted
\* and no kernel call is made, for every solid and every selection.
C1_InvalidRadiusFails ==
    options.radius <= 0 =>
        /\ pc \in {"start", "error"}
        /\ kernelLog = <<>>
        /\ allEdges = <<>> /\ selectedEdges = <<>> /\ cuttingTools = <<>>
        /\ result = NoResult

C1_Witness ==
    /\ pc = "error"
    /\ options.radius = 0
    /\ mesh = CubeMesh
    /\ kernelLog = <<>>

\* the calls that build tools or subtract: every kernel call but the mesh read
WorkCalls == {i \in 1..Len(kernelLog) : kernelLog[i].op # "getMesh"}

\* C2: with a valid radius, when edge extraction yields no edges or the
\* selection yields no edges, fillet raises no error and returns the input
\* solid itself, having built no tool and called no subtract.
C2_NoEdgesReturnsInput ==
    options.radius > 0 =>
        /\ pc # "error"
        /\ (pc \notin {"start", "extract"} /\ allEdges = <<>>) =>
              pc = "done" /\ result = InputSolid /\ WorkCalls = {} /\ cuttingTools = <<>>
        /\ (pc \notin {"start", "extract", "select"} /\ selectedEdges = <<>>) =>
              pc = "done" /\ result = InputSolid /\ WorkCalls = {} /\ cuttingTools = <<>>

\* the selection, not the extraction, came out empty
C2_Witness ==
    /\ pc = "done"
    /\ options.radius > 0
    /\ allEdges # <<>>
    /\ selectedEdges = <<>>
    /\ result = InputSolid

\* the calls made while building the tool of the k-th selected edge
CallsForEdge(k) == {i \in 1..Len(kernelLog) : kernelLog[i].edge = k}

\* the tools that were or are to be subtracted from the working solid
ToolsInUse ==
    SeqToSet(cuttingTools) \cup
        {kernelLog[i].args[2] : i \in {j \in 1..Len(kernelLog) : kernelLog[j].part = "solid"}}

\* C10: a cutting tool is built for a selected edge only if its dihedral
\* angle is strictly between 5 and 175 degrees; an edge with angle <= 5 or
\* >= 175 causes no tool-construction call and contributes no subtraction.
C10_ToolsOnlyInsideWindow ==
    /\ \A i \in 1..Len(kernelLog) :
          kernelLog[i].edge # 0 =>
              /\ kernelLog[i].edge \in 1..Len(selectedEdges)
              /\ selectedEdges[kernelLog[i].edge].dihedralAngle > Deg(5)
              /\ selectedEdges[kernelLog[i].edge].dihedralAngle < Deg(175)
    /\ \A h \in ToolsInUse :
          /\ kernelLog[h].edge \in 1..Len(selectedEdges)
          /\ selectedEdges[kernelLog[h].edge].dihedralAngle > Deg(5)
          /\ selectedEdges[kernelLog[h].edge].dihedralAngle < Deg(175)

\* a finished call that selected a flat edge, a folded edge and a right-angle
\* edge, and subtracted a tool
C10_Witness ==
    /\ pc = "done"
    /\ \E k \in 1..Len(selectedEdges) : selectedEdges[k].dihedralAngle = 0
    /\ \E k \in 1..Len(selectedEdges) : selectedEdges[k].dihedralAngle = Deg(180)
    /\ \E k \in 1..Len(selectedEdges) : CallsForEdge(k) # {}
    /\ result # InputSolid

\* the tools subtracted from the working solid so far
SubtractedTools ==
    {kernelLog[i].args[2] : i \in {j \in 1..Len(kernelLog) : kernelLog[j].part = "solid"}}

\* C11: a tool that is absent (createFilletCuttingTool returned null, as for
\* an edge of length < 1e-9) or whose volume is not above 1e-9 is never
\* added to cuttingTools and never subtracted from the working solid: no
\* subtract call is made for an attempt without a tool, and the tool of an
\* attempt with volume below the limit is in neither.
C11_DegenerateToolsUnused ==
    /\ \A a \in 1..Len(toolAttempts) :
          LET att == toolAttempts[a]
          IN  /\ EdgeLengthZero(selectedEdges[att.edge]) =>
                    att.tool = <<>> /\ CallsForEdge(att.edge) = {}
              /\ att.volume # "above" =>
                    /\ \A h \in SeqToSet(att.tool) :
                          h \notin SeqToSet(cuttingTools) /\ h \notin SubtractedTools
    /\ Cardinality(SeqToSet(cuttingTools) \cup SubtractedTools) <=
          Cardinality({a \in 1..Len(toolAttempts) : toolAttempts[a].volume = "above"})

\* a finished call with a zero-length edge in the angle window, a tool of
\* volume below the limit and a tool that was subtracted
C11_Witness ==
    /\ pc = "done"
    /\ \E a \in 1..Len(toolAttempts) : toolAttempts[a].volume = "absent"
    /\ \E a \in 1..Len(toolAttempts) : toolAttempts[a].volume = "below"
    /\ SubtractedTools # {}

\* the positions in kernelLog of the subtractions on the working solid
SolidCalls ==
    LET OnSolid(i) == kernelLog[i].part = "solid"
    IN  SelectSeq([i \in 1..Len(kernelLog) |-> i], OnSolid)

\* C12: the collected tools t1..tk are applied sequentially: the j-th
\* subtraction on the working solid is a binary subtract of cuttingTools[j]
\* from the result of the (j-1)-th one (from the input solid for j = 1), the
\* tools stand in selected-edge order, no union is called, and the call
\* returns the result of the k-th subtraction after exactly k of them (the
\* input solid itself, with no subtraction, when k = 0).
C12_SequentialSubtraction ==
    LET sub == SolidCalls
    IN  /\ \A i \in 1..Len(kernelLog) : kernelLog[i].op # "union"
        /\ Len(sub) <= Len(cuttingTools)
        /\ \A j \in 1..Len(sub) :
              /\ kernelLog[sub[j]].op = "subtract"
              /\ kernelLog[sub[j]].args =
                    <<IF j = 1 THEN InputSolid ELSE sub[j - 1], cuttingTools[j]>>
        /\ \A j \in 1..Len(cuttingTools) : \A l \in 1..Len(cuttingTools) :
              j < l => kernelLog[cuttingTools[j]].edge < kernelLog[cuttingTools[l]].edge
        /\ pc = "done" =>
              /\ Len(sub) = Len(cuttingTools)
              /\ result = IF Len(sub) = 0 THEN InputSolid ELSE sub[Len(sub)]

\* a finished call that subtracted three tools
C12_Witness ==
    /\ pc = "done"
    /\ Len(cuttingTools) >= 3
    /\ Len(SolidCalls) = Len(cuttingTools)
    /\ result = SolidCalls[Len(cuttingTools)]

\* the selected edges inside the angle window
EdgesInWindow ==
    {k \in 1..Len(selectedEdges) : InAngleWindow(selectedEdges[k].dihedralAngle)}

\* C17: tool construction is attempted exactly once for each selected edge
\* inside the angle window (the attempts are for pairwise different edges,
\* in edge order, only for edges in the window, and for all of them once
\* the loop has ended; an edge's tool is built by one run of the seven
\* kernel calls and one volume call), and every subtraction on the working
\* solid comes after the tool construction of all selected edges.
C17_OneAttemptThenSubtract ==
    /\ \A a \in 1..Len(toolAttempts) : \A b \in 1..Len(toolAttempts) :
          a < b => toolAttempts[a].edge < toolAttempts[b].edge
    /\ {toolAttempts[a].edge : a \in 1..Len(toolAttempts)} =
          {k \in EdgesInWindow : pc \in {"subtract", "done"} \/ k < idx}
    /\ \A k \in 1..Len(selectedEdges) : Cardinality(CallsForEdge(k)) \in {0, 8}
    /\ \A i \in 1..Len(kernelLog) :
          kernelLog[i].part = "solid" =>
              /\ pc \in {"subtract", "done"}
              /\ \A j \in 1..Len(kernelLog) : kernelLog[j].edge # 0 => j < i

\* a finished call: three edges in the window, each attempted, the tools of
\* two of them subtracted
C17_Witness ==
    /\ pc = "done"
    /\ Cardinality(EdgesInWindow) >= 3
    /\ Len(toolAttempts) = Cardinality(EdgesInWindow)
    /\ Len(SolidCalls) = 2
    /\ Len(selectedEdges) > Cardinality(EdgesInWindow)

(***************************************************************************)
(* SpecPipe: one call of pipeAlongPath or of pipeAlongPathExtended         *)
(* (src/unnamed/part_002).  The kernel calls are logged as in Spec, with   *)
(* edge 0 and the part "point", "segment" or "pipe".                       *)
(***************************************************************************)
MaxPath == 3

PathPoints == {<<0, 0, 0>>, <<1, 0, 0>>, <<1, 1, 0>>}

\* faulty variant: a path of two points is rejected as well
PathTooShortForThree(n) == n < 3

\* if (path.length < 2) throw
PathTooShort(n) == n < 2

\* faulty variant: the segments are always handed to union
SingleSegmentNever(n) == FALSE

\* if (segments_.length === 1) return segments_[0]
SingleSegment(n) == n = 1

\* the calls sphere(radius, segments).translate([x, y, z]) for the points
\* from the i-th on, made when the log holds n calls
RECURSIVE SphereCalls(_, _, _, _, _)
SphereCalls(n, pts, i, radius, segments) ==
    IF i > Len(pts) THEN <<>>
    ELSE << Call("sphere", <<radius, segments>>, 0, "point"),
            Call("translate", <<n + 1, pts[i]>>, 0, "point") >>
         \o SphereCalls(n + 2, pts, i + 1, radius, segments)

\* the calls hull([spheres[i], spheres[i + 1]]) from the i-th segment on;
\* spheres[i] is the solid of the call at position 2 * i of the function's
\* calls, base calls before them
RECURSIVE HullCalls(_, _, _)
HullCalls(base, i, count) ==
    IF i > count - 1 THEN <<>>
    ELSE <<Call("hull", <<base + 2 * i, base + 2 * (i + 1)>>, 0, "segment")>>
         \o HullCalls(base, i + 1, count)

\* pipeAlongPath on the points pts, made when the log holds n calls:
\* [ok, calls, result]
PipeAlongPath(n, pts, radius, segments) ==
    IF PathTooShort(Len(pts))
    THEN [ok |-> FALSE, calls |-> <<>>, result |-> NoResult]
    ELSE LET count    == Len(pts)
             spheres  == SphereCalls(n, pts, 1, radius, segments)
             hulls    == HullCalls(n, 1, count)
             segments_ == [i \in 1..(count - 1) |-> n + 2 * count + i]
         IN  IF SingleSegment(Len(segments_))
             THEN [ok |-> TRUE, calls |-> spheres \o hulls, result |-> segments_[1]]
             ELSE [ok |-> TRUE,
                   calls |-> (spheres \o hulls) \o <<Call("union", segments_, 0, "pipe")>>,
                   result |-> n + 3 * count]

\* normalize of part_002: [1, 0, 0] when the length is below 1e-12
NormalizeOrX(v) ==
    IF Dot3(v, v) = 0 THEN [dir |-> <<1, 0, 0>>, len2 |-> 1] ELSE Normalize(v)

\* ext = radius * extensionFactor, with the default extensionFactor = 0.1
PipeExt(radius) == (radius * Scale) \div 10

\* extendedPath of pipeAlongPathExtended, for a path of at least 2 points
ExtendedPath(pts, radius) ==
    LET start    == pts[1]
        startDir == NormalizeOrX(Sub3(start, pts[2]))
        end      == pts[Len(pts)]
        endDir   == NormalizeOrX(Sub3(end, pts[Len(pts) - 1]))
        ext      == PipeExt(radius)
    IN  (<<VAdd(PointVec(start), UnitTimes(startDir, ext))>>
           \o [i \in 1..Len(pts) |-> PointVec(pts[i])])
        \o <<VAdd(PointVec(end), UnitTimes(endDir, ext))>>

PipeAlongPathExtended(n, pts, radius, segments) ==
    IF PathTooShort(Len(pts))
    THEN [ok |-> FALSE, calls |-> <<>>, result |-> NoResult]
    ELSE PipeAlongPath(n, ExtendedPath(pts, radius), radius, segments)

Paths(n) == [1..n -> PathPoints]

InitPipe ==
    /\ \E n \in 0..MaxPath : path \in Paths(n)
    /\ options \in {[radius |-> r, selection |-> NoSelection, segments |-> sg] :
                       r \in Radii, sg \in SegmentChoices}
    /\ pc = "pipe"
    /\ mesh = NoSolid
    /\ allEdges = <<>>
    /\ selectedEdges = <<>>
    /\ idx = 0
    /\ cuttingTools = <<>>
    /\ result = NoResult
    /\ kernelLog = <<>>
    /\ warnings = <<>>
    /\ prevSelection = NoSelection
    /\ prevSelected = <<>>
    /\ toolAttempts = <<>>

DoPipeAlongPath ==
    /\ pc = "pipe"
    /\ LET made == PipeAlongPath(Len(kernelLog), [i \in 1..Len(path) |-> PointVec(path[i])],
                                 options.radius, options.segments)
       IN  /\ kernelLog' = kernelLog \o made.calls
           /\ result' = made.result
           /\ pc' = IF made.ok THEN "piped" ELSE "error"
    /\ UNCHANGED <<mesh, options, allEdges, selectedEdges, idx, cuttingTools, warnings,
                   prevSelection, prevSelected, toolAttempts, path>>

DoPipeAlongPathExtended ==
    /\ pc = "pipe"
    /\ LET made == PipeAlongPathExtended(Len(kernelLog), path, options.radius,
                                         options.segments)
       IN  /\ kernelLog' = kernelLog \o made.calls
           /\ result' = made.result
           /\ pc' = IF made.ok THEN "pipedExtended" ELSE "error"
    /\ UNCHANGED <<mesh, options, allEdges, selectedEdges, idx, cuttingTools, warnings,
                   prevSelection, prevSelected, toolAttempts, path>>

NextPipe == DoPipeAlongPath \/ DoPipeAlongPathExtended

SpecPipe == InitPipe /\ [][NextPipe]_vars

(***************************************************************************)
(* Claims about the path tube (SpecPipe)                                   *)
(***************************************************************************)
\* C13: pipeAlongPath and pipeAlongPathExtended called with a path of fewer
\* than 2 points fail with the invalid-input error before any kernel call
\* (sphere, translate, hull, union); with 2 or more points they do not
\* raise this error.
C13_ShortPathFails ==
    /\ Len(path) < 2 => pc \in {"pipe", "error"} /\ kernelLog = <<>> /\ result = NoResult
    /\ Len(path) >= 2 => pc # "error"

C13_Witness ==
    /\ pc = "error"
    /\ Len(path) = 1
    /\ kernelLog = <<>>

\* the positions in kernelLog of the calls of operation op
CallsOf(op) ==
    LET IsOp(i) == kernelLog[i].op = op
    IN  SelectSeq([i \in 1..Len(kernelLog) |-> i], IsOp)

\* C14: for a path of n >= 2 points pipeAlongPath creates exactly n spheres,
\* the i-th translated to the i-th path point, and exactly n - 1 hulls, the
\* i-th of the spheres at the points i and i + 1, and returns the union of
\* all n - 1 segments: the one segment itself, with no union call, for
\* n = 2, and else the solid of one union call on all the segments.
C14_SpheresHullsUnion ==
    pc = "piped" =>
        LET n == Len(path)
            spheres == CallsOf("sphere")
            placed == CallsOf("translate")
            hulls == CallsOf("hull")
            unions == CallsOf("union")
        IN  /\ n >= 2
            /\ Len(spheres) = n /\ Len(placed) = n /\ Len(hulls) = n - 1
            /\ Len(kernelLog) = Len(spheres) + Len(placed) + Len(hulls) + Len(unions)
            /\ \A i \in 1..n :
                  /\ kernelLog[spheres[i]].args = <<options.radius, options.segments>>
                  /\ kernelLog[placed[i]].args = <<spheres[i], PointVec(path[i])>>
            /\ \A i \in 1..(n - 1) :
                  kernelLog[hulls[i]].args = <<placed[i], placed[i + 1]>>
            /\ IF n = 2
               THEN unions = <<>> /\ result = hulls[1]
               ELSE /\ Len(unions) = 1
                    /\ kernelLog[unions[1]].args = hulls
                    /\ result = unions[1]

\* a path of three points, the last one equal to the first
C14_Witness ==
    /\ pc = "piped"
    /\ Len(path) = 3
    /\ path[1] = path[3]
    /\ Len(CallsOf("union")) = 1

(***************************************************************************)
(* SpecTool: createFilletCuttingTool and buildWedge called on an edge, and *)
(* then on the same edge stored the other way round.  The edges are those  *)
(* extractEdges returns; selectedEdges holds the edges passed, and the     *)
(* calls are logged with the position of their edge in it.                 *)
(***************************************************************************)
ToolMeshes == {CubeMesh, TetraMesh, MixedMesh, FoldedMesh, RepeatPairMesh}

ToolEdges == UNION {SeqToSet(ExtractEdges(m)) : m \in ToolMeshes}

\* the same edge with the two face normals stored in the other order
SwapNormals(e) == [e EXCEPT !.n0 = e.n1, !.n1 = e.n0]

\* the same edge with the two end points stored in the other order
SwapEndpoints(e) == [e EXCEPT !.v0 = e.v1, !.v1 = e.v0, !.p0 = e.p1, !.p1 = e.p0]

\* buildWedge(Manifold, edge, distance) for the k-th edge passed, with the
\* default inflate: the call Manifold.hull(points)
BuildWedge(k, e, distance) ==
    Call("hull", BuildWedgePoints(e, distance * Scale, DefaultInflate), k, "buildWedge")

\* both builders called on the k-th edge passed, when the log holds n calls
BothBuilders(n, k, e, radius, segments) ==
    CreateFilletCuttingTool(n, k, e, radius, segments).calls
        \o <<BuildWedge(k, e, radius)>>

InitTool ==
    /\ \E e \in ToolEdges : selectedEdges = <<e>>
    /\ options \in {[radius |-> r, selection |-> NoSelection, segments |-> sg] :
                       r \in 1..MaxRadius, sg \in SegmentChoices}
    /\ pc = "tool"
    /\ mesh = NoSolid
    /\ allEdges = <<>>
    /\ idx = 0
    /\ cuttingTools = <<>>
    /\ result = NoResult
    /\ kernelLog = <<>>
    /\ warnings = <<>>
    /\ prevSelection = NoSelection
    /\ prevSelected = <<>>
    /\ toolAttempts = <<>>
    /\ path = <<>>

DoCreateTool ==
    /\ pc = "tool"
    /\ kernelLog' = kernelLog \o
          CreateFilletCuttingTool(Len(kernelLog), 1, selectedEdges[1], options.radius,
                                  SegmentsOf(options)).calls
    /\ pc' = "wedge"
    /\ UNCHANGED <<mesh, options, allEdges, selectedEdges, idx, cuttingTools, result,
                   warnings, prevSelection, prevSelected, toolAttempts, path>>

DoBuildWedge ==
    /\ pc = "wedge"
    /\ kernelLog' = Append(kernelLog, BuildWedge(1, selectedEdges[1], options.radius))
    /\ pc' = "built"
    /\ UNCHANGED <<mesh, options, allEdges, selectedEdges, idx, cuttingTools, result,
                   warnings, prevSelection, prevSelected, toolAttempts, path>>

DoSwapNormals ==
    /\ pc = "built"
    /\ selectedEdges' = Append(selectedEdges, SwapNormals(selectedEdges[1]))
    /\ kernelLog' = kernelLog \o
          BothBuilders(Len(kernelLog), 2, selectedEdges'[2], options.radius,
                       SegmentsOf(options))
    /\ pc' = "normalsSwapped"
    /\ UNCHANGED <<mesh, options, allEdges, idx, cuttingTools, result,
                   warnings, prevSelection, prevSelected, toolAttempts, path>>

DoSwapEndpoints ==
    /\ pc = "built"
    /\ selectedEdges' = Append(selectedEdges, SwapEndpoints(selectedEdges[1]))
    /\ kernelLog' = kernelLog \o
          BothBuilders(Len(kernelLog), 2, selectedEdges'[2], options.radius,
                       SegmentsOf(options))
    /\ pc' = "endpointsSwapped"
    /\ UNCHANGED <<mesh, options, allEdges, idx, cuttingTools, result,
                   warnings, prevSelection, prevSelected, toolAttempts, path>>

NextTool == DoCreateTool \/ DoBuildWedge \/ DoSwapNormals \/ DoSwapEndpoints

SpecTool == InitTool /\ [][NextTool]_vars

(***************************************************************************)
(* Claims about the tool geometry (SpecTool)                               *)
(***************************************************************************)
\* the centres the tube's spheres of the k-th edge passed are translated to
TubeCentres(k) ==
    {<<kernelLog[i].part, kernelLog[i].args[2]>> :
        i \in {j \in CallsForEdge(k) : kernelLog[j].op = "translate"}}

\* the point sets handed to hull for the k-th edge passed, by the builder
\* named ("wedge": createFilletCuttingTool, "buildWedge": buildWedge)
WedgeSets(k, part) ==
    {SeqToSet(kernelLog[i].args) : i \in {j \in CallsForEdge(k) : kernelLog[j].part = part}}

\* C15: swapping n0 and n1 of an edge leaves unchanged the two tube sphere
\* centres and the set of six wedge points of createFilletCuttingTool, and
\* the set of six wedge points of buildWedge.
C15_NormalOrderIrrelevant ==
    pc = "normalsSwapped" =>
        /\ TubeCentres(1) = TubeCentres(2)
        /\ WedgeSets(1, "wedge") = WedgeSets(2, "wedge")
        /\ WedgeSets(1, "buildWedge") = WedgeSets(2, "buildWedge")

\* an edge with two different normals: both tools were built, the wedge
\* points are pushed in another order, and the sets are the same
C15_Witness ==
    /\ pc = "normalsSwapped"
    /\ selectedEdges[1].n0 # selectedEdges[1].n1
    /\ Cardinality(TubeCentres(1)) = 2
    /\ Cardinality(TubeCentres(2)) = 2
    /\ \E i \in CallsForEdge(1), j \in CallsForEdge(2) :
          /\ kernelLog[i].part = "buildWedge" /\ kernelLog[j].part = "buildWedge"
          /\ kernelLog[i].args # kernelLog[j].args
          /\ SeqToSet(kernelLog[i].args) = SeqToSet(kernelLog[j].args)

\* a right-angle edge: it has a length, its two normals are unit vectors
\* perpendicular to each other, and both are perpendicular to the edge
IsRightAngleEdge(e) ==
    /\ ~EdgeLengthZero(e)
    /\ e.n0.len2 > 0 /\ e.n1.len2 > 0
    /\ Dot3(e.n0.dir, e.n1.dir) = 0
    /\ Dot3(e.n0.dir, EdgeDir(e).dir) = 0
    /\ Dot3(e.n1.dir, EdgeDir(e).dir) = 0

\* the distance of the point v from the line through a with unit direction
\* dir is at most radius:  |w|^2 - (w.dir)^2 <= radius^2  for w = v - a,
\* with |w|^2 * Scale^2 = ww.num / 6 and (w.dir) * Scale = wd.num / 6
WithinRadiusOfAxis(v, a, dir, radius) ==
    LET w  == VSub(v, a)
        d  == UnitTimes(dir, 1)
        ww == VDot(w, w)
        wd == VDot(w, d)
    IN  /\ RationalDot(w, w) /\ RationalDot(w, d)
        /\ 6 * ww.num - wd.num * wd.num <= 36 * radius * radius * Scale * Scale

\* C16: for a right-angle edge, each of the four wedge vertices offset by
\* the wedge depth along -n0 or -n1 (the 2nd, 3rd, 5th and 6th wedge point)
\* lies inside or on the tube: its distance to the tube axis, the line
\* through the two sphere centres, is at most radius.
C16_WedgeInsideTube ==
    \A i \in 1..Len(kernelLog) :
        (kernelLog[i].part = "wedge" /\ IsRightAngleEdge(selectedEdges[kernelLog[i].edge])) =>
            LET e == selectedEdges[kernelLog[i].edge]
                \* the calls of one tool: translate (tubeStart) at i - 4
                tubeStart == kernelLog[i - 4].args[2]
            IN  \A q \in {2, 3, 5, 6} :
                    WithinRadiusOfAxis(kernelLog[i].args[q], tubeStart, EdgeDir(e),
                                       options.radius)

\* C18: buildWedge produces the same set of six wedge points for an edge
\* and for the same edge with p0 and p1 exchanged, normals unchanged.
C18_EndpointOrderIrrelevant ==
    pc = "endpointsSwapped" =>
        WedgeSets(1, "buildWedge") = WedgeSets(2, "buildWedge")

====
